---- MODULE Spec2Model ----
(***************************************************************************)
(* A model of terminal.py: the sparkline renderer create_sparkline, the    *)
(* trend indicators, and the control flow of get_stock_data (quote stage,  *)
(* report, news stage, selection loop, article scraper).                   *)
(*                                                                         *)
(* Output is modelled as a sequence of tokens.  A rendered sparkline is a  *)
(* sequence of strings: palette glyphs and the ANSI markers GREEN, RED and *)
(* RESET.  Python's '' (no colour) contributes no token.  What the program *)
(* prints, requests and reads is appended to the event log `log`.          *)
(***************************************************************************)
EXTENDS Integers, Sequences, FiniteSets, TLC

VARIABLES
    \* --- create_sparkline applied to one input (SparkSpec) ---
    data_points,      \* the samples handed to create_sparkline
    ticks,            \* the palette handed to create_sparkline
    colorize,         \* the colorize flag
    sparkline,        \* the returned string, as a token sequence
    trend,            \* the trend indicator of data_points
    spc,              \* "call" before the call, then "returned", then "trended"
    \* --- one run of get_stock_data (Spec) ---
    pc,               \* position of the run
    log,              \* events so far: requests issued, lines printed, prompts shown
    quote,            \* the quote response the run received
    prices,           \* line 101
    volumes,          \* line 102
    price_sparkline,  \* line 132
    volume_sparkline, \* line 133
    price_trend,      \* line 137
    volume_trend,     \* line 138
    news,             \* the news response the run received
    news_links,       \* line 171-175
    choice,           \* the last line read by input(), line 181
    eof,              \* input() met the end of standard input
    attempts,         \* number of prompts shown so far
    scraped           \* the urls webscrape_article was called with, in order

sparkVars == <<data_points, ticks, colorize, sparkline, trend, spc>>
runVars == <<pc, log, quote, prices, volumes, price_sparkline, volume_sparkline,
             price_trend, volume_trend, news, news_links, choice, eof, attempts, scraped>>
vars == <<sparkVars, runVars>>

----------------------------------------------------------------------------
(* Bounds of the model *)

MaxLen == 3        \* longest series handed to create_sparkline in SparkSpec
MaxVal == 5        \* largest sample value in SparkSpec
MaxTicks == 8      \* largest palette in SparkSpec
MaxItems == 6      \* most <item> elements in the news feed
MaxAttempts == 3   \* most prompts shown in one run

(* Program constants *)

NumPriceTicks == 8 \* len(price_ticks), line 131
TopNews == 5       \* news_items[:5], line 172
Window == 30       \* close[-30:] and volume[-30:], lines 101-102

----------------------------------------------------------------------------
(* ANSI markers, lines 108-110 *)

GREEN == "GREEN"
RED == "RED"
RESET == "RESET"

(* The i-th glyph (0-based) of a palette; glyphs of a palette are distinct. *)
Glyph(i) == "tick" \o ToString(i)

Palette(n) == [j \in 1..n |-> Glyph(j - 1)]

price_ticks == Palette(NumPriceTicks)

Range(s) == {s[j] : j \in 1..Len(s)}

min(s) == CHOOSE x \in Range(s) : \A y \in Range(s) : x <= y

max(s) == CHOOSE x \in Range(s) : \A y \in Range(s) : x >= y

(* Python's seq[i] for an index i >= -len(seq): negative indices count from the end. *)
PyIndex(s, i) == IF i >= 0 THEN s[i + 1] ELSE s[Len(s) + i + 1]

----------------------------------------------------------------------------
(* create_sparkline, lines 115-129 *)

(* variant of ValRange: the zero range avoided by adding one everywhere *)
ValRangePlusOne(min_val, max_val) == max_val - min_val + 1

\* line 119
ValRange(min_val, max_val) == IF max_val > min_val THEN max_val - min_val ELSE 1

(* variant of TickIndex: round() in place of int() *)
TickIndexRound(point, min_val, val_range, n) ==
    (2 * (point - min_val) * (n - 1) + val_range) \div (2 * val_range)

(* line 127: int(((point - min_val) / val_range) * (n - 1)).  point >= min_val and
   val_range >= 1, so the float is non-negative and int() (truncation) is the floor.
   For integer samples the double-precision result has the same integer part as the
   exact quotient (checked for every val_range < 60 and n < 12), so the index is the
   integer quotient. *)
TickIndex(point, min_val, val_range, n) == ((point - min_val) * (n - 1)) \div val_range

(* variant of TickColor: the i > 0 test dropped, so sample 0 is compared with
   data_points[-1] *)
TickColorWrap(dp, i, col) ==
    IF col
    THEN IF dp[i + 1] > PyIndex(dp, i - 1) THEN <<GREEN>>
         ELSE IF dp[i + 1] < PyIndex(dp, i - 1) THEN <<RED>>
         ELSE <<>>
    ELSE <<>>

(* lines 122-125: the colour prefix of sample i (0-based) *)
TickColor(dp, i, col) ==
    IF col /\ i > 0
    THEN IF dp[i + 1] > dp[i] THEN <<GREEN>>
         ELSE IF dp[i + 1] < dp[i] THEN <<RED>>
         ELSE <<>>
    ELSE <<>>

(* lines 120-128: the loop, from sample i (0-based) on *)
RECURSIVE SparkLoop(_, _, _, _, _, _)
SparkLoop(dp, tk, col, min_val, val_range, i) ==
    IF i >= Len(dp)
    THEN <<>>
    ELSE TickColor(dp, i, col)
         \o <<tk[TickIndex(dp[i + 1], min_val, val_range, Len(tk)) + 1]>>
         \o SparkLoop(dp, tk, col, min_val, val_range, i + 1)

(* variant of create_sparkline: RESET returned for an empty series too *)
create_sparkline_always_reset(dp, tk, col) ==
    IF dp = <<>>
    THEN <<RESET>>
    ELSE SparkLoop(dp, tk, col, min(dp), ValRange(min(dp), max(dp)), 0) \o <<RESET>>

(* variant of create_sparkline: the loop starts at the second sample *)
create_sparkline_skip_first(dp, tk, col) ==
    IF dp = <<>>
    THEN <<>>
    ELSE SparkLoop(dp, tk, col, min(dp), ValRange(min(dp), max(dp)), 1) \o <<RESET>>

(* lines 115-129 *)
create_sparkline(dp, tk, col) ==
    IF dp = <<>>
    THEN <<>>
    ELSE SparkLoop(dp, tk, col, min(dp), ValRange(min(dp), max(dp)), 0) \o <<RESET>>

(* variant of Trend: >= in place of > *)
TrendGeq(series) ==
    IF series # <<>> /\ series[Len(series)] >= series[1] THEN "up" ELSE "down"

(* lines 137-138: the trend indicator of a series *)
Trend(series) ==
    IF series # <<>> /\ series[Len(series)] > series[1] THEN "up" ELSE "down"

----------------------------------------------------------------------------
(* SparkSpec: create_sparkline applied to every input within the bounds *)

Samples == (0 - 1)..MaxVal

RECURSIVE SeqsUpTo(_, _)
SeqsUpTo(S, n) ==
    IF n = 0 THEN {<<>>}
    ELSE SeqsUpTo(S, n - 1) \cup [1..n -> S]

RunIdle ==
    /\ pc = "idle"
    /\ log = <<>>
    /\ quote = [received |-> FALSE]
    /\ prices = <<>>
    /\ volumes = <<>>
    /\ price_sparkline = <<>>
    /\ volume_sparkline = <<>>
    /\ price_trend = "unset"
    /\ volume_trend = "unset"
    /\ news = [received |-> FALSE]
    /\ news_links = <<>>
    /\ choice = <<>>
    /\ eof = FALSE
    /\ attempts = 0
    /\ scraped = <<>>

SparkInit ==
    /\ data_points \in SeqsUpTo(Samples, MaxLen)
    /\ ticks \in {Palette(n) : n \in 1..MaxTicks}
    /\ colorize \in BOOLEAN
    /\ sparkline = <<>>
    /\ trend = "unset"
    /\ spc = "call"
    /\ RunIdle

CallSparkline ==
    /\ spc = "call"
    /\ sparkline' = create_sparkline(data_points, ticks, colorize)
    /\ spc' = "returned"
    /\ UNCHANGED <<data_points, ticks, colorize, trend, runVars>>

(* the trend indicator of the same series, as lines 137-138 compute it *)
ComputeTrend ==
    /\ spc = "returned"
    /\ trend' = Trend(data_points)
    /\ spc' = "trended"
    /\ UNCHANGED <<data_points, ticks, colorize, sparkline, runVars>>

SparkNext == CallSparkline \/ ComputeTrend

SparkSpec == SparkInit /\ [][SparkNext]_vars

----------------------------------------------------------------------------
(* The quote response, lines 69-106 *)

None == [null |-> TRUE, v |-> 0]

Num(x) == [null |-> FALSE, v |-> x]

NotNone(e) == ~e.null

(* Python's s[-n:] *)
LastN(s, n) == IF Len(s) <= n THEN s ELSE SubSeq(s, Len(s) - n + 1, Len(s))

(* lines 101-102: [p for p in raw[-30:] if p is not None] *)
FilterNone(raw) ==
    LET kept == SelectSeq(LastN(raw, Window), NotNone)
    IN [j \in 1..Len(kept) |-> kept[j].v]

(* the close and volume lists a response may carry *)
RawSeries ==
    { <<>>,
      <<None>>,
      <<Num(5), Num(3)>>,
      <<Num(1), None, Num(3), Num(2)>> }

(* the display fields whose formatting raises when the value has the wrong type,
   with the line that formats them *)
FormatLine ==
    [ regularMarketTime |-> 141, marketCap |-> 146, regularMarketDayHigh |-> 148,
      fiftyTwoWeekHigh |-> 149, regularMarketVolume |-> 150, trailingPE |-> 152,
      epsTrailingTwelveMonths |-> 153, dividendYield |-> 154 ]

QuoteRecord(net, chart, hasMeta, price, prev, indicators, badField, close, volume) ==
    [ received |-> TRUE, net |-> net, chart |-> chart, hasMeta |-> hasMeta,
      price |-> price, prev |-> prev, indicators |-> indicators,
      badField |-> badField, close |-> close, volume |-> volume ]

(* A response is: a transport failure, an HTTP error status, a body that is not
   JSON (which requests reports as a RequestException or, before 2.27, as a
   ValueError), or a JSON document.  The document may lack chart or
   chart.result, may not be an object, may lack meta, regularMarketPrice or
   chartPreviousClose, may have chartPreviousClose = 0, may lack indicators or
   have an empty quote list, and may carry a display field of the wrong type. *)
QuoteResponses ==
    { QuoteRecord(net, "ok", TRUE, "num", "num", "ok", "none", <<>>, <<>>) :
        net \in {"transport", "http", "badjson_request", "badjson_value"} }
    \cup
    { QuoteRecord("ok", chart, TRUE, "num", "num", "ok", "none", <<>>, <<>>) :
        chart \in {"nochart", "noresult", "notdict"} }
    \cup
    { QuoteRecord("ok", "ok", FALSE, "none", "none", ind, "none", <<>>, <<>>) :
        ind \in {"ok", "nokey"} }
    \cup
    { QuoteRecord("ok", "ok", TRUE, price, prev, ind, "none", <<Num(5), Num(3)>>, <<>>) :
        price \in {"none", "num"}, prev \in {"none", "zero", "num"},
        ind \in {"ok", "nokey", "emptyquote"} }
    \cup
    { QuoteRecord("ok", "ok", TRUE, "num", "num", "ok", bad, close, volume) :
        bad \in {"none"} \cup DOMAIN FormatLine, close \in RawSeries, volume \in RawSeries }

(* variant of QuoteOutcome: `and` in place of `or` at line 84, so a single missing
   field reaches the arithmetic of line 105 (TypeError) *)
QuoteOutcomeAnd(q) ==
    IF q.net \in {"transport", "http", "badjson_request"} THEN "RequestException"
    ELSE IF q.net = "badjson_value" THEN "Exception"
    ELSE IF q.chart = "notdict" THEN "Exception"
    ELSE IF q.chart \in {"nochart", "noresult"} THEN "nodata"
    ELSE IF ~q.hasMeta THEN "KeyError"
    ELSE IF q.price = "none" /\ q.prev = "none" THEN "noprice"
    ELSE IF q.indicators = "nokey" THEN "KeyError"
    ELSE IF q.indicators = "emptyquote" THEN "IndexError"
    ELSE IF q.price = "none" \/ q.prev = "none" THEN "Exception"
    ELSE IF q.prev = "zero" THEN "Exception"
    ELSE "ok"

(* lines 69-106: how the quote stage ends.  An exception class, "nodata" (the
   return at line 76), "noprice" (the return at line 86) or "ok". *)
QuoteOutcome(q) ==
    IF q.net \in {"transport", "http", "badjson_request"} THEN "RequestException"  \* 69-71
    ELSE IF q.net = "badjson_value" THEN "Exception"                               \* 71
    ELSE IF q.chart = "notdict" THEN "Exception"                                   \* 74
    ELSE IF q.chart \in {"nochart", "noresult"} THEN "nodata"                      \* 74-76
    ELSE IF ~q.hasMeta THEN "KeyError"                                             \* 79
    ELSE IF q.price = "none" \/ q.prev = "none" THEN "noprice"                     \* 84-86
    ELSE IF q.indicators = "nokey" THEN "KeyError"                                 \* 101
    ELSE IF q.indicators = "emptyquote" THEN "IndexError"                          \* 101
    ELSE IF q.prev = "zero" THEN "Exception"                                       \* 106
    ELSE "ok"

(* lines 198-203: the handlers of the outer try *)
OuterHandler(exc) ==
    IF exc = "RequestException" THEN "Error fetching data"
    ELSE IF exc \in {"KeyError", "IndexError"} THEN "Could not parse the API response"
    ELSE "An unexpected error occurred"

(* what the quote stage prints when it does not succeed *)
QuoteDiagnostic(outcome) ==
    IF outcome = "nodata" THEN "Could not find data"                     \* line 75
    ELSE IF outcome = "noprice" THEN "Could not retrieve current price"  \* line 85
    ELSE OuterHandler(outcome)

(* variant of AfterQuote: the return of line 76 missing *)
AfterQuoteNoReturn(outcome) == IF outcome \in {"ok", "nodata"} THEN "report" ELSE "done"

(* where the run goes after the quote stage: on to the report, or out through
   a return (76, 86) or a handler (198-203) *)
AfterQuote(outcome) == IF outcome = "ok" THEN "report" ELSE "done"

----------------------------------------------------------------------------
(* The report, lines 141-158 *)

ReportLine(n) == "report:" \o ToString(n)

(* the print statements of lines 142-158, in order; 156 and 157 are conditional *)
ReportLineNumbers(p, v) ==
    <<142, 143, 144, 145, 146, 147, 148, 149, 150, 151, 152, 153, 154, 155>>
    \o (IF p # <<>> THEN <<156>> ELSE <<>>)
    \o (IF v # <<>> THEN <<157>> ELSE <<>>)
    \o <<158>>

(* the lines printed before line `limit` raises; all of them when limit = 0 *)
ReportLinesUntil(p, v, limit) ==
    LET nums == ReportLineNumbers(p, v)
        shown == IF limit = 0 THEN nums
                 ELSE SelectSeq(nums, LAMBDA n : n < limit)
    IN [j \in 1..Len(shown) |-> ReportLine(shown[j])]

----------------------------------------------------------------------------
(* The news stage, lines 161-196 *)

Link(i) == "link" \o ToString(i)

NewsItem(i) == "item:" \o ToString(i)

Min2(a, b) == IF a < b THEN a ELSE b

(* A feed response: a transport failure or timeout, an HTTP error status, a body
   that is not XML, or a feed of `items` items of which item `badItem` (0: none)
   lacks its title or link element. *)
NewsResponses ==
    { [received |-> TRUE, net |-> net, items |-> 0, badItem |-> 0] :
        net \in {"transport", "http", "badxml"} }
    \cup
    UNION { { [received |-> TRUE, net |-> "ok", items |-> k, badItem |-> b] :
                b \in 0..Min2(k, TopNews) } : k \in 0..MaxItems }

(* variant of NewsHandler: the inner handler catching RequestException only *)
NewsHandlerNarrow(exc) ==
    IF exc = "RequestException" THEN "Could not fetch news" ELSE OuterHandler(exc)

(* line 195: the handler of the inner try catches every Exception *)
NewsHandler(exc) == "Could not fetch news"

(* lines 163-166: the exception the fetch raises, or "none" *)
NewsException(n) ==
    IF n.net \in {"transport", "http"} THEN "RequestException"   \* 163-164
    ELSE IF n.net = "badxml" THEN "ParseError"                    \* 166
    ELSE "none"

(* lines 172-176: the listing; it stops at the first of the top five items that
   lacks its title or link (AttributeError on None.text) *)
Listed(n) ==
    LET top == Min2(n.items, TopNews)
    IN IF n.badItem \in 1..top THEN n.badItem - 1 ELSE top

ListingFails(n) == n.badItem \in 1..Min2(n.items, TopNews)

----------------------------------------------------------------------------
(* The selection loop, lines 179-191 *)

Digits == {"0", "1", "2", "3", "4", "5", "6", "7", "8", "9"}

DigitVal(c) ==
    CASE c = "0" -> 0 [] c = "1" -> 1 [] c = "2" -> 2 [] c = "3" -> 3 [] c = "4" -> 4
      [] c = "5" -> 5 [] c = "6" -> 6 [] c = "7" -> 7 [] c = "8" -> 8 [] c = "9" -> 9

(* str.strip(): leading and trailing blanks removed *)
RECURSIVE LStrip(_)
LStrip(s) == IF s # <<>> /\ Head(s) = " " THEN LStrip(Tail(s)) ELSE s

RECURSIVE RStrip(_)
RStrip(s) == IF s # <<>> /\ s[Len(s)] = " " THEN RStrip(SubSeq(s, 1, Len(s) - 1)) ELSE s

Strip(s) == RStrip(LStrip(s))

RECURSIVE DigitsValue(_)
DigitsValue(s) == IF s = <<>> THEN 0 ELSE 10 * DigitsValue(SubSeq(s, 1, Len(s) - 1)) + DigitVal(s[Len(s)])

AllDigits(s) == s # <<>> /\ \A j \in 1..Len(s) : s[j] \in Digits

(* int(text): blanks around, an optional sign, then digits; anything else is a
   ValueError *)
PyInt(text) ==
    LET s == Strip(text)
        signed == s # <<>> /\ Head(s) \in {"+", "-"}
        body == IF signed THEN Tail(s) ELSE s
    IN IF AllDigits(body)
       THEN [ok |-> TRUE, val |-> IF signed /\ Head(s) = "-" THEN 0 - DigitsValue(body) ELSE DigitsValue(body)]
       ELSE [ok |-> FALSE, val |-> 0]

(* the lines the user may type *)
Inputs ==
    { <<>>, <<" ">>, <<"a">>, <<"1", ".", "5">>, <<"1", " ", "2">>,
      <<"0">>, <<" ", "0", " ">>, <<"0", "0">>, <<"+", "0">>,
      <<"-", "1">>, <<"1">>, <<"2">>, <<" ", "2">>, <<"+", "3">>, <<"0", "4">>,
      <<"5">>, <<"6">>, <<"7">>, <<"1", "0">> }

(* lines 181-191: one pass of the loop on the line `text`, with k links listed *)
PromptOutcome(text, k) ==
    IF Strip(text) = <<"0">> THEN "skip"                           \* 182-183
    ELSE IF ~PyInt(Strip(text)).ok THEN "invalid_input"            \* 184, 190-191
    ELSE IF PyInt(Strip(text)).val - 1 \in 0..(k - 1) THEN "select"  \* 185-187
    ELSE "invalid_number"                                          \* 188-189

(* webscrape_article, lines 8-48: what it prints and requests *)
ScrapeOutcomes == {"ok", "RequestException", "Exception"}

webscrape_article(outcome) ==
    <<"Fetching content", "GET article">>
    \o (IF outcome = "ok" THEN <<"Article Content">>                       \* 41-43
        ELSE IF outcome = "RequestException" THEN <<"Error fetching article">>  \* 45-46
        ELSE <<"An unexpected error occurred during web scraping">>)       \* 47-48

----------------------------------------------------------------------------
(* Spec: one run of get_stock_data *)

Init ==
    /\ data_points = <<>>
    /\ ticks = price_ticks
    /\ colorize = TRUE
    /\ sparkline = <<>>
    /\ trend = "unset"
    /\ spc = "idle"
    /\ pc = "quote"
    /\ log = <<>>
    /\ quote = [received |-> FALSE]
    /\ prices = <<>>
    /\ volumes = <<>>
    /\ price_sparkline = <<>>
    /\ volume_sparkline = <<>>
    /\ price_trend = "unset"
    /\ volume_trend = "unset"
    /\ news = [received |-> FALSE]
    /\ news_links = <<>>
    /\ choice = <<>>
    /\ eof = FALSE
    /\ attempts = 0
    /\ scraped = <<>>

(* lines 65-139 with the returns at 76 and 86 and the handlers at 198-203 *)
FetchQuote ==
    /\ pc = "quote"
    /\ \E q \in QuoteResponses :
         LET outcome == QuoteOutcome(q)
         IN /\ quote' = q
            /\ pc' = AfterQuote(outcome)
            /\ log' = log \o <<"GET quote">>
                          \o (IF outcome = "ok" THEN <<>> ELSE <<QuoteDiagnostic(outcome)>>)
            /\ IF outcome = "ok"
               THEN /\ prices' = FilterNone(q.close)
                    /\ volumes' = FilterNone(q.volume)
                    /\ price_sparkline' = create_sparkline(FilterNone(q.close), price_ticks, TRUE)
                    /\ volume_sparkline' = create_sparkline(FilterNone(q.volume), price_ticks, TRUE)
                    /\ price_trend' = Trend(FilterNone(q.close))
                    /\ volume_trend' = Trend(FilterNone(q.volume))
               ELSE UNCHANGED <<prices, volumes, price_sparkline, volume_sparkline,
                                price_trend, volume_trend>>
    /\ UNCHANGED <<sparkVars, news, news_links, choice, eof, attempts, scraped>>

(* lines 141-158; a display field of the wrong type raises where it is
   formatted, and the outer handler at 202-203 ends the run *)
PrintReport ==
    /\ pc = "report"
    /\ IF quote.badField = "none"
       THEN /\ log' = log \o ReportLinesUntil(prices, volumes, 0)
            /\ pc' = "news"
       ELSE /\ log' = log \o ReportLinesUntil(prices, volumes, FormatLine[quote.badField])
                          \o <<OuterHandler("Exception")>>
            /\ pc' = "done"
    /\ UNCHANGED <<sparkVars, quote, prices, volumes, price_sparkline, volume_sparkline,
                   price_trend, volume_trend, news, news_links, choice, eof, attempts, scraped>>

(* lines 161-177 and 192-196 *)
FetchNews ==
    /\ pc = "news"
    /\ \E n \in NewsResponses :
         /\ news' = n
         /\ IF NewsException(n) # "none"
            THEN /\ log' = log \o <<"GET news", NewsHandler(NewsException(n))>>
                 /\ pc' = "done"
                 /\ UNCHANGED news_links
            ELSE IF n.items = 0
            THEN /\ log' = log \o <<"GET news", "No news found">>               \* 193
                 /\ pc' = "done"
                 /\ UNCHANGED news_links
            ELSE IF ListingFails(n)
            THEN /\ log' = log \o <<"GET news", "Latest News">>
                               \o [j \in 1..Listed(n) |-> NewsItem(j)]
                               \o <<NewsHandler("AttributeError")>>
                 /\ pc' = "done"
                 /\ UNCHANGED news_links
            ELSE /\ log' = log \o <<"GET news", "Latest News">>
                               \o [j \in 1..Listed(n) |-> NewsItem(j)]
                 /\ news_links' = [j \in 1..Listed(n) |-> Link(j)]
                 /\ pc' = "prompt"
    /\ UNCHANGED <<sparkVars, quote, prices, volumes, price_sparkline, volume_sparkline,
                   price_trend, volume_trend, choice, eof, attempts, scraped>>

(* lines 179-191, one pass of the while loop: input() either returns a line or
   raises EOFError, which only the handler at line 195 catches *)
PromptEOF ==
    /\ pc = "prompt"
    /\ attempts < MaxAttempts
    /\ attempts' = attempts + 1
    /\ eof' = TRUE
    /\ log' = log \o <<"Prompt", NewsHandler("EOFError")>>
    /\ pc' = "done"
    /\ UNCHANGED <<sparkVars, quote, prices, volumes, price_sparkline, volume_sparkline,
                   price_trend, volume_trend, news, news_links, choice, scraped>>

PromptLine ==
    /\ pc = "prompt"
    /\ attempts < MaxAttempts
    /\ attempts' = attempts + 1
    /\ \E text \in Inputs :
         LET outcome == PromptOutcome(text, Len(news_links))
         IN /\ choice' = Strip(text)
            /\ \/ /\ outcome = "skip"
                  /\ log' = log \o <<"Prompt">>
                  /\ pc' = "done"
                  /\ UNCHANGED scraped
               \/ /\ outcome = "select"
                  /\ \E result \in ScrapeOutcomes :
                       log' = log \o <<"Prompt">> \o webscrape_article(result)
                  /\ scraped' = Append(scraped, news_links[PyInt(Strip(text)).val])
                  /\ pc' = "done"
               \/ /\ outcome = "invalid_number"
                  /\ log' = log \o <<"Prompt", "Invalid number">>
                  /\ pc' = "prompt"
                  /\ UNCHANGED scraped
               \/ /\ outcome = "invalid_input"
                  /\ log' = log \o <<"Prompt", "Invalid input">>
                  /\ pc' = "prompt"
                  /\ UNCHANGED scraped
    /\ UNCHANGED <<sparkVars, quote, prices, volumes, price_sparkline, volume_sparkline,
                   price_trend, volume_trend, news, news_links, eof>>

Next == FetchQuote \/ PrintReport \/ FetchNews \/ PromptLine \/ PromptEOF

Spec == Init /\ [][Next]_vars

----------------------------------------------------------------------------
(* Reading a rendered sparkline back *)

IsGlyph(t) == t \notin {GREEN, RED, RESET}

IsColour(t) == t \in {GREEN, RED}

GlyphsOf(out) == SelectSeq(out, IsGlyph)

(* 0-based palette index of glyph g *)
IndexOfGlyph(g, tk) == CHOOSE j \in 0..(Len(tk) - 1) : tk[j + 1] = g

(* position in out of its i-th glyph (1-based), 0 when there is none *)
RECURSIVE GlyphPosFrom(_, _, _)
GlyphPosFrom(out, i, p) ==
    IF p > Len(out) THEN 0
    ELSE IF IsGlyph(out[p])
         THEN IF i = 1 THEN p ELSE GlyphPosFrom(out, i - 1, p + 1)
         ELSE GlyphPosFrom(out, i, p + 1)

GlyphPos(out, i) == GlyphPosFrom(out, i, 1)

(* the colour carried by the i-th glyph: the marker right before it, if any *)
ColourOf(out, i) ==
    LET p == GlyphPos(out, i)
    IN IF p > 1 /\ IsColour(out[p - 1]) THEN out[p - 1] ELSE "none"

Count(out, t) == Cardinality({p \in 1..Len(out) : out[p] = t})

StrictlyIncreasing(s) == \A j \in 1..(Len(s) - 1) : s[j] < s[j + 1]

(* the palette index of the glyph rendered for sample i (1-based) *)
RenderedIndex(i) == IndexOfGlyph(GlyphsOf(sparkline)[i], ticks)

----------------------------------------------------------------------------
(* Claims about create_sparkline, checked under SparkSpec *)

(* C1: for a non-empty series and any palette, colorize on or off, the result
   holds exactly one palette glyph per sample (colour and reset markers not
   counted), and the glyphs follow the samples' order: a sample that is not
   smaller than another never gets a lower glyph. *)
C1_GlyphPerSample ==
    (spc # "call" /\ data_points # <<>>) =>
        /\ Len(GlyphsOf(sparkline)) = Len(data_points)
        /\ \A i \in 1..Len(GlyphsOf(sparkline)) : GlyphsOf(sparkline)[i] \in Range(ticks)
        /\ \A i, j \in 1..Len(data_points) :
              (i <= Len(GlyphsOf(sparkline)) /\ j <= Len(GlyphsOf(sparkline))
                  /\ data_points[i] <= data_points[j])
              => RenderedIndex(i) <= RenderedIndex(j)

C1_Witness ==
    /\ spc = "returned"
    /\ Len(data_points) = 3
    /\ colorize
    /\ Count(sparkline, GREEN) = 1
    /\ Count(sparkline, RED) = 1
    /\ Len(GlyphsOf(sparkline)) = 3

(* C2: the tick index of a sample is floor((sample - min) / range * (N - 1))
   when range = max - min > 0 and 0 when all samples are equal; it always lies
   in 0..N-1. *)
C2_TickIndexFloor ==
    (spc # "call" /\ data_points # <<>>) =>
        LET n == Len(ticks)
            lo == min(data_points)
            r == max(data_points) - lo
        IN /\ Len(GlyphsOf(sparkline)) = Len(data_points)
           /\ \A i \in 1..Len(data_points) :
                LET k == RenderedIndex(i)
                    d == data_points[i] - lo
                IN /\ k \in 0..(n - 1)
                   /\ r > 0 => (k * r <= d * (n - 1) /\ d * (n - 1) < (k + 1) * r)
                   /\ r = 0 => k = 0

C2_Witness ==
    /\ spc = "returned"
    /\ data_points = <<0, 2, 5>>
    /\ Len(ticks) = 8
    /\ GlyphsOf(sparkline) = <<Glyph(0), Glyph(2), Glyph(7)>>

(* C3: for a strictly increasing series of length >= 2 the tick indices are
   non-decreasing and the last glyph is the highest glyph of the palette. *)
C3_IncreasingSeries ==
    (spc # "call" /\ Len(data_points) >= 2 /\ StrictlyIncreasing(data_points)) =>
        /\ Len(GlyphsOf(sparkline)) = Len(data_points)
        /\ \A i \in 1..(Len(data_points) - 1) : RenderedIndex(i) <= RenderedIndex(i + 1)
        /\ GlyphsOf(sparkline)[Len(data_points)] = ticks[Len(ticks)]

C3_Witness ==
    /\ spc = "returned"
    /\ data_points = <<1, 2, 4>>
    /\ Len(ticks) = 4
    /\ GlyphsOf(sparkline) = <<Glyph(0), Glyph(1), Glyph(3)>>

(* C4: an empty series gives the empty string, without a reset marker; a
   non-empty series gives a string with exactly one reset marker, which is
   its last element. *)
C4_ResetOnlyAtEnd ==
    spc # "call" =>
        /\ data_points = <<>> => sparkline = <<>>
        /\ data_points # <<>> =>
              /\ sparkline # <<>>
              /\ sparkline[Len(sparkline)] = RESET
              /\ Count(sparkline, RESET) = 1

C4_Witness ==
    /\ spc = "returned"
    /\ data_points = <<2, 2, 3>>
    /\ colorize
    /\ sparkline = <<Glyph(0), Glyph(0), GREEN, Glyph(1), RESET>>

(* C5: with colorize on, sample 0 carries no colour and sample i > 0 carries
   GREEN iff it is above its predecessor, RED iff below, none iff equal; with
   colorize off nothing carries a colour; every colour marker stands right
   before a glyph.  For [5, 3]: none, then RED. *)
C5_DirectionColours ==
    spc # "call" =>
        /\ \A i \in 1..Len(data_points) :
              IF colorize /\ i > 1
              THEN /\ ColourOf(sparkline, i) = GREEN <=> data_points[i] > data_points[i - 1]
                   /\ ColourOf(sparkline, i) = RED <=> data_points[i] < data_points[i - 1]
                   /\ ColourOf(sparkline, i) = "none" <=> data_points[i] = data_points[i - 1]
              ELSE ColourOf(sparkline, i) = "none"
        /\ \A p \in 1..Len(sparkline) :
              IsColour(sparkline[p]) => (p < Len(sparkline) /\ IsGlyph(sparkline[p + 1]))
        /\ ~colorize => Count(sparkline, GREEN) + Count(sparkline, RED) = 0
        /\ (colorize /\ data_points = <<5, 3>>) =>
              (ColourOf(sparkline, 1) = "none" /\ ColourOf(sparkline, 2) = RED)

C5_Witness ==
    /\ spc = "returned"
    /\ data_points = <<5, 3>>
    /\ colorize
    /\ Len(ticks) = 8
    /\ sparkline = <<Glyph(7), RED, Glyph(0), RESET>>

----------------------------------------------------------------------------
(* Claim about the trend indicator, checked under SparkSpec *)

(* C6: the trend indicator of a series is "up" iff the series is non-empty and
   its last sample is strictly above its first; otherwise (a tie, one sample,
   no sample) it is "down".  Whatever lies between the first and the last
   sample, and whatever the sparkline shows, does not change it. *)
C6_TrendFirstLast ==
    spc = "trended" =>
        /\ trend \in {"up", "down"}
        /\ trend = "up" <=>
              (Len(data_points) >= 1 /\ data_points[Len(data_points)] - data_points[1] > 0)
        /\ (Len(data_points) <= 1 \/ data_points[Len(data_points)] = data_points[1])
              => trend = "down"

C6_Witness ==
    /\ spc = "trended"
    /\ data_points = <<1, 3, 2>>
    /\ colorize
    /\ ColourOf(sparkline, 3) = RED
    /\ trend = "up"

----------------------------------------------------------------------------
(* Reading the event log of a run *)

Occurs(t) == \E p \in 1..Len(log) : log[p] = t

FirstPos(t) == CHOOSE p \in 1..Len(log) : log[p] = t /\ \A r \in 1..(p - 1) : log[r] # t

LastPos(t) == CHOOSE p \in 1..Len(log) : log[p] = t /\ \A r \in (p + 1)..Len(log) : log[r] # t

(* every line of the report stands in the log before position upto *)
ReportCompleteBefore(upto) ==
    /\ \A n \in (142..155) \cup {158} : \E p \in 1..(upto - 1) : log[p] = ReportLine(n)
    /\ prices # <<>> => \E p \in 1..(upto - 1) : log[p] = ReportLine(156)
    /\ volumes # <<>> => \E p \in 1..(upto - 1) : log[p] = ReportLine(157)

NoReportLine == \A p \in 1..Len(log) : \A n \in 142..158 : log[p] # ReportLine(n)

QuoteStageMessages ==
    {"Error fetching data", "Could not parse the API response", "An unexpected error occurred"}

QuoteDiagnostics ==
    QuoteStageMessages \cup {"Could not find data", "Could not retrieve current price"}

(* the response reached the price check of lines 81-84 *)
ReachedPriceCheck(q) == q.received /\ q.net = "ok" /\ q.chart = "ok" /\ q.hasMeta

(* the quote stage failed: transport error, HTTP error status, body that is not
   JSON, no chart result, unexpected shape, missing price, zero previous close *)
QuoteStageFailed(q) ==
    /\ q.received
    /\ \/ q.net # "ok"
       \/ q.chart # "ok"
       \/ ~q.hasMeta
       \/ q.price = "none"
       \/ q.prev \in {"none", "zero"}
       \/ q.indicators # "ok"

----------------------------------------------------------------------------
(* Claims about get_stock_data, checked under Spec *)

(* C7: when the response reaches the price check and lacks regularMarketPrice or
   chartPreviousClose, the run prints "Could not retrieve current price" and
   stops: no report line, no news request, no prompt, no scraper call. *)
C7_MissingPriceAborts ==
    (ReachedPriceCheck(quote) /\ (quote.price = "none" \/ quote.prev = "none")) =>
        /\ log = <<"GET quote", "Could not retrieve current price">>
        /\ pc = "done"
        /\ NoReportLine
        /\ ~Occurs("GET news")
        /\ ~Occurs("Prompt")
        /\ scraped = <<>>

C7_Witness ==
    /\ ReachedPriceCheck(quote)
    /\ quote.price = "none"
    /\ quote.prev = "num"
    /\ quote.indicators = "nokey"
    /\ pc = "done"
    /\ log[Len(log)] = "Could not retrieve current price"

(* C8: a failure of the news fetch (transport error, HTTP error status,
   unparsable XML) comes only after the complete report was printed, prints
   "Could not fetch news", shows no prompt, calls no scraper and prints none of
   the quote-stage error messages. *)
C8_NewsFailureAfterReport ==
    (news.received /\ news.net \in {"transport", "http", "badxml"}) =>
        /\ Occurs("GET news")
        /\ ReportCompleteBefore(FirstPos("GET news"))
        /\ log[Len(log)] = "Could not fetch news"
        /\ FirstPos("GET news") = Len(log) - 1
        /\ pc = "done"
        /\ ~Occurs("Prompt")
        /\ ~Occurs("GET article")
        /\ scraped = <<>>
        /\ \A m \in QuoteStageMessages : ~Occurs(m)

C8_Witness ==
    /\ news.received
    /\ news.net = "badxml"
    /\ prices = <<5, 3>>
    /\ volumes = <<>>
    /\ Occurs(ReportLine(156))
    /\ ~Occurs(ReportLine(157))
    /\ log[Len(log)] = "Could not fetch news"

(* C9: in the selection loop the last line read decides: an invalid line
   (non-numeric, or an integer outside 0..k) leaves the loop running; the loop
   is left only after a skip (0) or a valid selection n in 1..k; after a valid
   selection the scraper was called exactly once, with the n-th link; after a
   skip it was not called; it is never called twice. *)
C9_LoopEndsOnSkipOrSelection ==
    attempts > 0 =>
        LET k == Len(news_links)
            n == PyInt(choice)
            valid == n.ok /\ n.val \in 1..k
            skip == n.ok /\ n.val = 0
            invalid == ~n.ok \/ n.val \notin 0..k
        IN /\ (~eof /\ invalid) => (pc = "prompt" /\ scraped = <<>>)
           /\ pc = "done" => (~eof /\ (skip \/ valid))
           /\ (~eof /\ valid) => (pc = "done" /\ scraped = <<news_links[n.val]>>)
           /\ (pc = "done" /\ ~eof /\ skip) => scraped = <<>>
           /\ Len(scraped) <= 1

(* C10: the run is sequential and gated.  The news request comes only after a
   successful quote stage and the whole report; the prompt only after a
   successful news request with at least one item; the article request only
   after a valid selection.  When the quote stage fails, exactly one
   diagnostic is printed and nothing else happens. *)
C10_StagesGated ==
    /\ log # <<>> => log[1] = "GET quote"
    /\ Count(log, "GET quote") <= 1 /\ Count(log, "GET news") <= 1 /\ Count(log, "GET article") <= 1
    /\ Occurs("GET news") =>
          /\ ~QuoteStageFailed(quote)
          /\ ReportCompleteBefore(FirstPos("GET news"))
    /\ Occurs("Prompt") =>
          /\ Occurs("GET news")
          /\ FirstPos("GET news") < FirstPos("Prompt")
          /\ news.received /\ news.net = "ok" /\ news.items >= 1
    /\ Occurs("GET article") =>
          /\ Occurs("Prompt")
          /\ LastPos("Prompt") < FirstPos("GET article")
          /\ PyInt(choice).ok
          /\ PyInt(choice).val \in 1..Len(news_links)
          /\ scraped = <<news_links[PyInt(choice).val]>>
    /\ QuoteStageFailed(quote) =>
          /\ Len(log) = 2
          /\ log[2] \in QuoteDiagnostics
          /\ pc = "done"
          /\ NoReportLine
          /\ attempts = 0
          /\ scraped = <<>>

C10_Witness ==
    /\ pc = "done"
    /\ attempts = 2
    /\ Occurs("Invalid number")
    /\ Occurs("GET article")
    /\ scraped = <<Link(3)>>

====
